---- MODULE Spec2Model ----
(***************************************************************************)
(* A model of ghostcfg: the configuration document (ghostcfg/config_io.py) *)
(* with its line parser, serializer, accessors and file functions, and the *)
(* app on top of it (ghostcfg/app.py, widgets/option_row.py): option rows, *)
(* theme preview, save, quit and the font cache.                           *)
(*                                                                         *)
(* A Python str is modelled as a sequence of one-character strings, so     *)
(* that splitting, stripping, quoting and unquoting are computed character *)
(* by character, as the code computes them.                                *)
(***************************************************************************)
EXTENDS Naturals, Sequences, FiniteSets

VARIABLES
    text,       \* the input text handed to parse_config
    entries,    \* GhosttyConfig.entries of the document under edit
    out,        \* the result of the last to_text()
    reparsed,   \* entries of parse_config(out)
    out2,       \* to_text() of the re-parsed document
    pc,         \* position of the driver or the app: start, edit, running, ...
    prev,       \* entries before the last accessor call
    op,         \* the last accessor call: its name and arguments
    result,     \* the value the last call returned
    disk,       \* the file system: the text of each file, or Absent
    path,       \* GhosttyConfig.path of the document
    backed_up,  \* GhosttyConfig._backed_up of the document
    cli_data,   \* what get_config_with_docs() supplies: option -> value
    config_values,   \* GhostCfg._config_values
    original_theme,  \* GhostCfg._original_theme
    rows,       \* the OptionRow widgets: option -> the row's fields
    has_unsaved,          \* GhostCfg.has_unsaved
    force_quit_pending,   \* GhostCfg._force_quit_pending (False when unset)
    posted,     \* an OptionRow.ValueChanged message is in flight to the app
    warned,     \* a q press has warned and no save has succeeded since
    session_file,     \* the text of the config file when the app started
    installed_fonts,  \* the font families fc-list reports now
    fonts_cache,      \* option_row._FONTS_CACHE
    list_fonts_calls  \* how often list_fonts() has been called

\* The file system and the document's file fields.
ioVars == <<disk, path, backed_up>>

\* The option rows, the app's quit and save flags, and the font cache.
uiVars == <<rows, has_unsaved, force_quit_pending, posted, warned,
           session_file, installed_fonts, fonts_cache, list_fonts_calls>>

\* The fields of the GhostCfg app and of its widgets.
appVars == <<cli_data, config_values, original_theme, uiVars>>

vars == <<text, entries, out, reparsed, out2, pc, prev, op, result,
          ioVars, appVars>>

----------------------------------------------------------------------------
(* Bounds of the model.                                                    *)

\* Longest input text of SpecText, counted in tokens of TextTokens.
MaxLen == 4
\* Most lines of a text a document of SpecDoc is parsed from.
MaxLines == 3
\* Most entries a document of SpecDoc may grow to.
MaxEntries == 4
\* Most lines of the texts the two documents of SpecDiff are parsed from.
MaxDiffLines == 2

----------------------------------------------------------------------------
(* Characters and Python's str helpers.                                    *)

NL == "\n"
CR == "\r"
SP == " "
DQ == "\""
SQ == "'"
EQ == "="
HASH == "#"

\* Characters str.strip() removes (the whitespace of the model's alphabet).
Whitespace == {SP, NL, CR}

\* Line boundaries str.splitlines() splits on (CR NL counts as one).
LineBreaks == {NL, CR}

\* Python's None, a value no str equals.
None == <<"<None>">>

\* A file that does not exist.
Absent == <<"<absent>">>

\* A Path is a name and its suffix; NoPath is the None of a path field.
NoPath == <<"<None>", "">>
ConfigPath == <<"config", "">>
AltPath == <<"alt", ".conf">>
OldPath == <<"old", ".bak">>
Paths == {ConfigPath, AltPath, OldPath}

\* Path.with_suffix(suffix)
with_suffix(p, suffix) == <<p[1], suffix>>

\* The files of the model's file system.
FileNames == Paths \cup {with_suffix(p, ".bak") : p \in Paths}

\* A document that belongs to no file, on an empty file system.
IdleIO ==
    /\ disk = [f \in FileNames |-> Absent]
    /\ path = NoPath
    /\ backed_up = FALSE

\* No rows, no q press, no edit, and get_fonts never called.
IdleUI ==
    /\ rows = <<>>
    /\ has_unsaved = FALSE
    /\ force_quit_pending = FALSE
    /\ posted = FALSE
    /\ warned = FALSE
    /\ session_file = Absent
    /\ installed_fonts = {}
    /\ fonts_cache = None
    /\ list_fonts_calls = 0

\* An app that has loaded nothing.
IdleApp ==
    /\ cli_data = <<>>
    /\ config_values = <<>>
    /\ original_theme = <<>>
    /\ IdleUI

RECURSIVE lstrip(_)
lstrip(s) ==
    IF s # <<>> /\ Head(s) \in Whitespace THEN lstrip(Tail(s)) ELSE s

RECURSIVE rstrip(_)
rstrip(s) ==
    IF s # <<>> /\ s[Len(s)] \in Whitespace
    THEN rstrip(SubSeq(s, 1, Len(s) - 1))
    ELSE s

\* str.strip()
strip(s) == rstrip(lstrip(s))

\* str.startswith(c) / str.endswith(c) for a one-character c
startswith(s, c) == s # <<>> /\ s[1] = c
endswith(s, c) == s # <<>> /\ s[Len(s)] = c

\* c in s
contains(s, c) == \E i \in 1..Len(s) : s[i] = c

\* s[1:-1]
slice_inner(s) == SubSeq(s, 2, Len(s) - 1)

\* str.partition("="): <<before, after>> of the first "=" (s holds one)
partition(s) ==
    LET i == CHOOSE j \in 1..Len(s) :
                 s[j] = EQ /\ \A k \in 1..(j - 1) : s[k] # EQ
    IN  <<SubSeq(s, 1, i - 1), SubSeq(s, i + 1, Len(s))>>

\* str.splitlines(): the scan from position i, cur the line being read,
\* acc the lines read so far.
RECURSIVE SplitFrom(_, _, _, _)
SplitFrom(s, i, cur, acc) ==
    IF i > Len(s)
    THEN IF cur = <<>> THEN acc ELSE Append(acc, cur)
    ELSE IF s[i] = CR /\ i < Len(s) /\ s[i + 1] = NL
         THEN SplitFrom(s, i + 2, <<>>, Append(acc, cur))
         ELSE IF s[i] \in LineBreaks
              THEN SplitFrom(s, i + 1, <<>>, Append(acc, cur))
              ELSE SplitFrom(s, i + 1, Append(cur, s[i]), acc)

splitlines(s) == SplitFrom(s, 1, <<>>, <<>>)

\* sep.join(lines)
RECURSIVE join(_, _)
join(sep, lines) ==
    IF lines = <<>> THEN <<>>
    ELSE IF Len(lines) = 1 THEN lines[1]
         ELSE lines[1] \o sep \o join(sep, Tail(lines))

----------------------------------------------------------------------------
(* ConfigEntry and the parser.                                             *)

\* ConfigEntry(kind, key="", value="", raw="")
ConfigEntry(kind, key, value, raw) ==
    [kind |-> kind, key |-> key, value |-> value, raw |-> raw]

\* The value of an option line: the text right of the first "=", trimmed,
\* with one outer pair of quotes removed.
parse_value(v) ==
    LET value == strip(v)
    IN  IF (startswith(value, DQ) /\ endswith(value, DQ))
           \/ (startswith(value, SQ) /\ endswith(value, SQ))
        THEN slice_inner(value)
        ELSE value

\* The body of parse_config's loop: the entry one line gives.
parse_line(line) ==
    LET stripped == strip(line)
    IN  IF stripped = <<>>
        THEN ConfigEntry("blank", <<>>, <<>>, line)
        ELSE IF startswith(stripped, HASH)
             THEN ConfigEntry("comment", <<>>, <<>>, line)
             ELSE IF contains(stripped, EQ)
                  THEN LET kv == partition(stripped)
                       IN  ConfigEntry("option", strip(kv[1]),
                                       parse_value(kv[2]), <<>>)
                  ELSE ConfigEntry("comment", <<>>, <<>>, line)

\* A parse_config that skips blank lines instead of keeping them.
parse_config_skip_blank(t) ==
    LET lines == splitlines(t)
        all == [i \in 1..Len(lines) |-> parse_line(lines[i])]
    IN  SelectSeq(all, LAMBDA e : e.kind # "blank")

parse_config(t) ==
    LET lines == splitlines(t)
    IN  [i \in 1..Len(lines) |-> parse_line(lines[i])]

----------------------------------------------------------------------------
(* The serializer.                                                         *)

\* An entry_line that quotes only the empty value.
entry_line_quote_empty_only(e) ==
    IF e.kind = "comment" \/ e.kind = "blank"
    THEN e.raw
    ELSE LET value == IF e.value = <<>>
                      THEN <<DQ>> \o e.value \o <<DQ>>
                      ELSE e.value
         IN  e.key \o <<SP, EQ, SP>> \o value

\* The line to_text emits for one entry.
entry_line(e) ==
    IF e.kind = "comment" \/ e.kind = "blank"
    THEN e.raw
    ELSE LET value == IF e.value # strip(e.value) \/ e.value = <<>>
                      THEN <<DQ>> \o e.value \o <<DQ>>
                      ELSE e.value
         IN  e.key \o <<SP, EQ, SP>> \o value

\* A to_text that ends every non-empty text with one more newline.
to_text_always_newline(es) ==
    LET lines == [i \in 1..Len(es) |-> entry_line(es[i])]
        joined == join(<<NL>>, lines)
    IN  IF joined # <<>> THEN joined \o <<NL>> ELSE joined

to_text(es) ==
    LET lines == [i \in 1..Len(es) |-> entry_line(es[i])]
        joined == join(<<NL>>, lines)
    IN  IF joined # <<>> /\ ~endswith(joined, NL)
        THEN joined \o <<NL>>
        ELSE joined

----------------------------------------------------------------------------
(* The accessors of GhosttyConfig, over its entries.                       *)

\* entry.kind == "option" and entry.key == key
IsOption(e, key) == e.kind = "option" /\ e.key = key

\* get's loop over reversed(self.entries), from position i downwards.
RECURSIVE GetFrom(_, _, _)
GetFrom(es, key, i) ==
    IF i = 0 THEN None
    ELSE IF IsOption(es[i], key) THEN es[i].value
         ELSE GetFrom(es, key, i - 1)

\* A get that scans forwards: the first occurrence wins.
RECURSIVE GetFirstFrom(_, _, _)
GetFirstFrom(es, key, i) ==
    IF i > Len(es) THEN None
    ELSE IF IsOption(es[i], key) THEN es[i].value
         ELSE GetFirstFrom(es, key, i + 1)

get_first(es, key) == GetFirstFrom(es, key, 1)

get(es, key) == GetFrom(es, key, Len(es))

\* A get_all that collects the values in reverse order.
get_all_reversed(es, key) ==
    LET m == SelectSeq(es, LAMBDA e : IsOption(e, key))
    IN  [i \in 1..Len(m) |-> m[Len(m) + 1 - i].value]

get_all(es, key) ==
    LET m == SelectSeq(es, LAMBDA e : IsOption(e, key))
    IN  [i \in 1..Len(m) |-> m[i].value]

\* A set that updates the last matching entry instead of the first.
set_last(es, key, value) ==
    IF \E i \in 1..Len(es) : IsOption(es[i], key)
    THEN LET i == CHOOSE j \in 1..Len(es) :
                      /\ IsOption(es[j], key)
                      /\ \A k \in (j + 1)..Len(es) : ~IsOption(es[k], key)
         IN  [es EXCEPT ![i].value = value]
    ELSE Append(es, ConfigEntry("option", key, value, <<>>))

\* A set that puts a new entry first instead of last.
set_prepend(es, key, value) ==
    IF \E i \in 1..Len(es) : IsOption(es[i], key)
    THEN LET i == CHOOSE j \in 1..Len(es) :
                      /\ IsOption(es[j], key)
                      /\ \A k \in 1..(j - 1) : ~IsOption(es[k], key)
         IN  [es EXCEPT ![i].value = value]
    ELSE <<ConfigEntry("option", key, value, <<>>)>> \o es

set(es, key, value) ==
    IF \E i \in 1..Len(es) : IsOption(es[i], key)
    THEN LET i == CHOOSE j \in 1..Len(es) :
                      /\ IsOption(es[j], key)
                      /\ \A k \in 1..(j - 1) : ~IsOption(es[k], key)
         IN  [es EXCEPT ![i].value = value]
    ELSE Append(es, ConfigEntry("option", key, value, <<>>))

\* A remove that drops only the first matching entry.
remove_first(es, key) ==
    IF \E i \in 1..Len(es) : IsOption(es[i], key)
    THEN LET i == CHOOSE j \in 1..Len(es) :
                      /\ IsOption(es[j], key)
                      /\ \A k \in 1..(j - 1) : ~IsOption(es[k], key)
         IN  SubSeq(es, 1, i - 1) \o SubSeq(es, i + 1, Len(es))
    ELSE es

remove(es, key) == SelectSeq(es, LAMBDA e : ~IsOption(e, key))

\* A set_repeatable that appends without removing the old entries.
set_repeatable_keep(es, key, values) ==
    es \o [i \in 1..Len(values) |->
              ConfigEntry("option", key, values[i], <<>>)]

\* A set_repeatable that drops the option entries of every key.
set_repeatable_clear_options(es, key, values) ==
    SelectSeq(es, LAMBDA e : e.kind # "option")
        \o [i \in 1..Len(values) |->
               ConfigEntry("option", key, values[i], <<>>)]

\* self.set_repeatable(key, values), on the entries
set_repeatable(es, key, values) ==
    remove(es, key) \o [i \in 1..Len(values) |->
                           ConfigEntry("option", key, values[i], <<>>)]

\* A modified_keys that looks only at the keys self holds.
modified_keys_self_only(self, original) ==
    LET all_keys == {self[i].key :
                        i \in {j \in 1..Len(self) : self[j].kind = "option"}}
    IN  {key \in all_keys : get_all(self, key) # get_all(original, key)}

\* A modified_keys that looks only at the keys original holds.
modified_keys_original_only(self, original) ==
    LET all_keys ==
            {original[i].key :
                i \in {j \in 1..Len(original) : original[j].kind = "option"}}
    IN  {key \in all_keys : get_all(self, key) # get_all(original, key)}

\* self.modified_keys(original), over the entries of the two documents
modified_keys(self, original) ==
    LET all_keys ==
            {self[i].key :
                i \in {j \in 1..Len(self) : self[j].kind = "option"}}
            \cup
            {original[i].key :
                i \in {j \in 1..Len(original) : original[j].kind = "option"}}
    IN  {key \in all_keys : get_all(self, key) # get_all(original, key)}

----------------------------------------------------------------------------
(* Reading, writing and backing up the config file.                        *)

\* raise ValueError("No path specified")
ValueError == <<"<ValueError>">>

\* shutil.copy2 raises SameFileError when source and target are one file
SameFileError == <<"<SameFileError>">>

\* Path.read_text(): text mode turns "\r\n" and a lone "\r" into "\n"
RECURSIVE read_text(_)
read_text(b) ==
    IF b = <<>> THEN <<>>
    ELSE IF Head(b) = CR
         THEN IF Len(b) >= 2 /\ b[2] = NL
              THEN <<NL>> \o read_text(Tail(Tail(b)))
              ELSE <<NL>> \o read_text(Tail(b))
         ELSE <<Head(b)>> \o read_text(Tail(b))

\* A read_config that leaves the document of a missing file without path.
read_config_unbound(d, p) ==
    IF d[p] = Absent
    THEN [entries |-> <<>>, path |-> NoPath, backed_up |-> FALSE]
    ELSE [entries |-> parse_config(read_text(d[p])), path |-> p,
          backed_up |-> FALSE]

\* read_config(path) on the file system d: the document it returns
read_config(d, p) ==
    IF d[p] = Absent
    THEN [entries |-> <<>>, path |-> p, backed_up |-> FALSE]
    ELSE [entries |-> parse_config(read_text(d[p])), path |-> p,
          backed_up |-> FALSE]

\* A write_config that prefers the document's own path to the argument.
write_config_own_path(d, es, cfgpath, arg) ==
    LET p == IF cfgpath # NoPath THEN cfgpath ELSE arg
    IN  IF p = NoPath
        THEN [disk |-> d, ret |-> ValueError]
        ELSE [disk |-> [d EXCEPT ![p] = to_text(es)], ret |-> None]

\* write_config(config, path=arg) for a document with entries es and path
\* cfgpath: the file system afterwards, and None or the error raised
write_config(d, es, cfgpath, arg) ==
    LET p == IF arg # NoPath THEN arg ELSE cfgpath
    IN  IF p = NoPath
        THEN [disk |-> d, ret |-> ValueError]
        ELSE [disk |-> [d EXCEPT ![p] = to_text(es)], ret |-> None]

\* A backup_config that does not look at the _backed_up flag.
backup_config_every_time(d, cfgpath, flag) ==
    IF cfgpath = NoPath \/ d[cfgpath] = Absent
    THEN [disk |-> d, backed_up |-> flag, ret |-> None]
    ELSE LET backup_path == with_suffix(cfgpath, ".bak")
         IN  IF backup_path = cfgpath
             THEN [disk |-> d, backed_up |-> flag, ret |-> SameFileError]
             ELSE [disk |-> [d EXCEPT ![backup_path] = d[cfgpath]],
                   backed_up |-> TRUE, ret |-> backup_path]

\* backup_config(config) for a document with path cfgpath and _backed_up
\* flag: the file system and the flag afterwards, and the value returned or
\* the error raised (shutil.copy2 raises before the flag is set)
backup_config(d, cfgpath, flag) ==
    IF flag \/ cfgpath = NoPath \/ d[cfgpath] = Absent
    THEN [disk |-> d, backed_up |-> flag, ret |-> None]
    ELSE LET backup_path == with_suffix(cfgpath, ".bak")
         IN  IF backup_path = cfgpath
             THEN [disk |-> d, backed_up |-> flag, ret |-> SameFileError]
             ELSE [disk |-> [d EXCEPT ![backup_path] = d[cfgpath]],
                   backed_up |-> TRUE, ret |-> backup_path]

----------------------------------------------------------------------------
(* GhostCfg._load_data: the values the app shows.                          *)

ThemeKey == <<"t", "h", "e", "m", "e">>

\* d.get(k, default) of a dict
dict_get(d, k, default) == IF k \in DOMAIN d THEN d[k] ELSE default

\* The value the provider gives for an option: data.get("value", ""),
\* a list (repeatable option) joined with ", "
provider_value(data) ==
    IF data.islist THEN join(<<",", SP>>, data.value) ELSE data.value

\* A load that takes an empty file value for a missing one.
load_values_falsy(es, data) ==
    [name \in DOMAIN data |->
        LET file_val == get(es, name)
        IN  IF file_val # None /\ file_val # <<>> THEN file_val
            ELSE provider_value(data[name])]

\* _config_values after the loop of _load_data over cli_data.items(), for
\* a document with entries es
load_values(es, data) ==
    [name \in DOMAIN data |->
        LET file_val == get(es, name)
        IN  IF file_val # None THEN file_val
            ELSE provider_value(data[name])]

----------------------------------------------------------------------------
(* OptionRow (widgets/option_row.py): one option and its input widget.     *)

\* str.lower() of one character, for the letters the model's values use
lower_char(c) == IF c = "T" THEN "t" ELSE IF c = "F" THEN "f" ELSE c

\* value.lower()
lower(s) == [i \in 1..Len(s) |-> lower_char(s[i])]

\* OptionRow._normalize_value(value, opt_type)
normalize_value(value, opt_type) ==
    IF opt_type = "boolean" THEN lower(value) ELSE value

\* OptionRow.is_modified
is_modified(row) == row.current_value # row.original_value

\* The text of the row's label: the key, with " *" when modified
label_text(row) ==
    IF is_modified(row) THEN row.key \o <<SP, "*">> ELSE row.key

\* OptionRow._update_modified_label: a row that is not composed has no
\* label, and the failed query is ignored
update_modified_label(row) ==
    IF row.label = None THEN row ELSE [row EXCEPT !.label = label_text(row)]

\* An OptionRow whose original value is the value as it was handed in.
new_row_raw_original(key, opt_type, default, current_value) ==
    [key |-> key, type |-> opt_type, default |-> default,
     current_value |-> normalize_value(current_value, opt_type),
     original_value |-> current_value,
     label |-> None]

\* OptionRow(key, meta, current_value, ...): meta gives type and default
new_row(key, opt_type, default, current_value) ==
    [key |-> key, type |-> opt_type, default |-> default,
     current_value |-> normalize_value(current_value, opt_type),
     original_value |-> normalize_value(current_value, opt_type),
     label |-> None]

\* OptionRow.compose: the label is made with the mark of the moment
compose_row(row) == [row EXCEPT !.label = label_text(row)]

\* on_input_changed / on_switch_changed / on_select_changed up to the
\* posting of ValueChanged: the new value, then _notify_change's label update
value_changed(row, new_val) ==
    update_modified_label([row EXCEPT !.current_value = new_val])

\* OptionRow.update_original_value(new_value)
update_original_value(row, new_value) ==
    update_modified_label([row EXCEPT !.original_value = new_value])

\* OptionRow.reset_to_default up to the posting of ValueChanged
reset_to_default(row) == value_changed(row, row.default)

----------------------------------------------------------------------------
(* GhostCfg (app.py): theme preview, save and quit.                        *)

\* THEME_COLOR_KEYS
THEME_COLOR_KEYS ==
   {<<"b", "a", "c", "k", "g", "r", "o", "u", "n", "d">>,
    <<"f", "o", "r", "e", "g", "r", "o", "u", "n", "d">>,
    <<"b", "o", "l", "d", "-", "c", "o", "l", "o", "r">>,
    <<"c", "u", "r", "s", "o", "r", "-", "c", "o", "l", "o", "r">>,
    <<"c", "u", "r", "s", "o", "r", "-", "t", "e", "x", "t">>,
    <<"s", "e", "l", "e", "c", "t", "i", "o", "n", "-", "f", "o", "r", "e",
      "g", "r", "o", "u", "n", "d">>,
    <<"s", "e", "l", "e", "c", "t", "i", "o", "n", "-", "b", "a", "c", "k",
      "g", "r", "o", "u", "n", "d">>,
    <<"s", "p", "l", "i", "t", "-", "d", "i", "v", "i", "d", "e", "r", "-",
      "c", "o", "l", "o", "r">>,
    <<"u", "n", "f", "o", "c", "u", "s", "e", "d", "-", "s", "p", "l", "i",
      "t", "-", "f", "i", "l", "l">>,
    <<"w", "i", "n", "d", "o", "w", "-", "t", "i", "t", "l", "e", "b", "a",
      "r", "-", "b", "a", "c", "k", "g", "r", "o", "u", "n", "d">>,
    <<"w", "i", "n", "d", "o", "w", "-", "t", "i", "t", "l", "e", "b", "a",
      "r", "-", "f", "o", "r", "e", "g", "r", "o", "u", "n", "d">>}

\* "palette"
PaletteKey == <<"p", "a", "l", "e", "t", "t", "e">>

\* An OSError raised by mkdir or write_text in write_config
OSError == <<"<OSError>">>

\* write_config(config) in an environment where the write succeeds (ok) or
\* the file cannot be opened for writing
write_config_env(d, es, cfgpath, ok) ==
    IF ok THEN write_config(d, es, cfgpath, NoPath)
    ELSE [disk |-> d, ret |-> OSError]

\* d[k] = v of a dict
dict_set(d, k, v) ==
    [x \in DOMAIN d \cup {k} |-> IF x = k THEN v ELSE d[x]]

\* for key in keys: config.remove(key)
RECURSIVE remove_keys(_, _)
remove_keys(es, keys) ==
    IF keys = {} THEN es
    ELSE LET key == CHOOSE k \in keys : TRUE
         IN  remove_keys(remove(es, key), keys \ {key})

\* The document part of _apply_theme(theme): set the theme, remove the
\* color keys and the palette
theme_entries(es, theme) ==
    remove(remove_keys(set(es, ThemeKey, theme), THEME_COLOR_KEYS),
           PaletteKey)

\* ConfigPanel.get_modified_values / GhostCfg._collect_changes: the keys of
\* the modified rows (the value of each is the row's current_value)
collect_changes(rs) == {k \in DOMAIN rs : is_modified(rs[k])}

\* A save loop that writes an empty value with set.
RECURSIVE save_entries_set_empty(_, _, _)
save_entries_set_empty(es, order, rs) ==
    IF order = <<>> THEN es
    ELSE LET key == Head(order)
             value == rs[key].current_value
         IN  save_entries_set_empty(
                 IF key \in collect_changes(rs) THEN set(es, key, value)
                 ELSE es,
                 Tail(order), rs)

\* The loop of action_save over changes.items(), in the order of the rows:
\* set for a non-empty value, remove for an empty one
RECURSIVE save_entries(_, _, _)
save_entries(es, order, rs) ==
    IF order = <<>> THEN es
    ELSE LET key == Head(order)
             value == rs[key].current_value
         IN  save_entries(
                 IF key \in collect_changes(rs)
                 THEN IF value # <<>> THEN set(es, key, value)
                      ELSE remove(es, key)
                 ELSE es,
                 Tail(order), rs)

\* _config_values after the loop of action_save that follows the write
RECURSIVE saved_values(_, _, _)
saved_values(values, order, rs) ==
    IF order = <<>> THEN values
    ELSE LET key == Head(order)
         IN  saved_values(
                 IF key \in collect_changes(rs)
                 THEN dict_set(values, key, rs[key].current_value)
                 ELSE values,
                 Tail(order), rs)

\* The rows after the loop of action_save that follows the write
saved_rows(rs) ==
    [k \in DOMAIN rs |->
        IF is_modified(rs[k])
        THEN update_original_value(rs[k], rs[k].current_value)
        ELSE rs[k]]

----------------------------------------------------------------------------
(* The font list (ghostty.list_fonts) and its cache (option_row.get_fonts) *)

\* The fallback families list_fonts always adds.
CommonFonts ==
    {"SF Mono", "Menlo", "Monaco", "Courier New", "JetBrains Mono",
     "Fira Code", "Source Code Pro", "Hack", "Inconsolata"}

\* Families fc-list may report besides.
ExtraFonts == {"DejaVu Sans Mono", "Iosevka", "Ubuntu Mono"}

\* All families in the order of sorted(fonts, key=str.lower)
FontOrder ==
    <<"Courier New", "DejaVu Sans Mono", "Fira Code", "Hack", "Inconsolata",
      "Iosevka", "JetBrains Mono", "Menlo", "Monaco", "SF Mono",
      "Source Code Pro", "Ubuntu Mono">>

\* list_fonts() when fc-list reports the families of installed (none when
\* fc-list is missing or times out)
list_fonts(installed) ==
    SelectSeq(FontOrder, LAMBDA f : f \in installed \cup CommonFonts)

\* A get_fonts that computes the list on every call.
get_fonts_uncached(cache, installed, calls) ==
    [cache |-> list_fonts(installed), calls |-> calls + 1,
     ret |-> list_fonts(installed)]

\* get_fonts(): the new _FONTS_CACHE, the number of list_fonts calls made
\* so far, and the list returned
get_fonts(cache, installed, calls) ==
    IF cache = None
    THEN [cache |-> list_fonts(installed), calls |-> calls + 1,
          ret |-> list_fonts(installed)]
    ELSE [cache |-> cache, calls |-> calls, ret |-> cache]

----------------------------------------------------------------------------
(* Input texts of SpecText: up to MaxLen tokens, each one character of the *)
(* alphabet or the separator " = ".                                        *)

TextTokens ==
    {<<"a">>, <<EQ>>, <<SP>>, <<HASH>>, <<DQ>>, <<SQ>>, <<NL>>, <<CR>>,
     <<SP, EQ, SP>>}

RECURSIVE TextsOf(_)
TextsOf(n) ==
    IF n = 0 THEN {<<>>}
    ELSE LET shorter == TextsOf(n - 1)
         IN  shorter \cup {t \o k : t \in shorter, k \in TextTokens}

Texts == TextsOf(MaxLen)

NoOp == [name |-> "none", key |-> <<>>, value |-> <<>>, values |-> <<>>]

InitText ==
    /\ text \in Texts
    /\ entries = <<>>
    /\ out = <<>>
    /\ reparsed = <<>>
    /\ out2 = <<>>
    /\ pc = "start"
    /\ prev = <<>>
    /\ op = NoOp
    /\ result = None
    /\ IdleIO
    /\ IdleApp

\* config = parse_config(text)
Parse ==
    /\ pc = "start"
    /\ entries' = parse_config(text)
    /\ pc' = "parsed"
    /\ UNCHANGED <<text, out, reparsed, out2, prev, op, result, ioVars, appVars>>

\* out = config.to_text()
Serialize ==
    /\ pc \in {"parsed", "edit"}
    /\ out' = to_text(entries)
    /\ pc' = "serialized"
    /\ UNCHANGED <<text, entries, reparsed, out2, prev, op, result,
                   ioVars, appVars>>

\* again = parse_config(out)
Reparse ==
    /\ pc = "serialized"
    /\ reparsed' = parse_config(out)
    /\ pc' = "reparsed"
    /\ UNCHANGED <<text, entries, out, out2, prev, op, result, ioVars, appVars>>

\* out2 = again.to_text()
Reserialize ==
    /\ pc = "reparsed"
    /\ out2' = to_text(reparsed)
    /\ pc' = "done"
    /\ UNCHANGED <<text, entries, out, reparsed, prev, op, result, ioVars, appVars>>

NextText == Parse \/ Serialize \/ Reparse \/ Reserialize

SpecText == InitText /\ [][NextText]_vars

----------------------------------------------------------------------------
(* SpecDoc: a document parsed from a small config text, then edited by any *)
(* sequence of accessor calls, then written and read back.                 *)

Keys == {<<"a">>, <<"b">>}
Values == {<<"1">>, <<"2">>}

\* The values lists handed to set_repeatable.
ValueLists ==
    {<<>>, <<<<"1">>>>, <<<<"1">>, <<"2">>>>, <<<<"2">>, <<"1">>>>,
     <<<<"2">>, <<"2">>>>}

\* The lines the initial texts are made of.
DocLines ==
    {<<"a", SP, EQ, SP, "1">>, <<"a", SP, EQ, SP, "2">>,
     <<"b", SP, EQ, SP, "1">>, <<HASH, SP, "c">>, <<>>}

RECURSIVE DocTextsOf(_)
DocTextsOf(n) ==
    IF n = 0 THEN {<<>>}
    ELSE LET shorter == DocTextsOf(n - 1)
         IN  shorter \cup {t \o l \o <<NL>> : t \in shorter, l \in DocLines}

DocTexts == DocTextsOf(MaxLines)

Call(name, key, value, values) ==
    [name |-> name, key |-> key, value |-> value, values |-> values]

\* The document is parse_config of one of the texts.
InitDoc ==
    /\ text = <<>>
    /\ entries \in {parse_config(t) : t \in DocTexts}
    /\ out = <<>>
    /\ reparsed = <<>>
    /\ out2 = <<>>
    /\ pc = "edit"
    /\ prev = <<>>
    /\ op = NoOp
    /\ result = None
    /\ IdleIO
    /\ IdleApp

\* v = config.get(key)
Get(key) ==
    /\ pc = "edit"
    /\ result' = get(entries, key)
    /\ prev' = entries
    /\ op' = Call("get", key, <<>>, <<>>)
    /\ UNCHANGED <<text, entries, out, reparsed, out2, pc, ioVars, appVars>>

\* vs = config.get_all(key)
GetAll(key) ==
    /\ pc = "edit"
    /\ result' = get_all(entries, key)
    /\ prev' = entries
    /\ op' = Call("get_all", key, <<>>, <<>>)
    /\ UNCHANGED <<text, entries, out, reparsed, out2, pc, ioVars, appVars>>

\* config.set(key, value)
Set(key, value) ==
    /\ pc = "edit"
    /\ Len(set(entries, key, value)) <= MaxEntries
    /\ entries' = set(entries, key, value)
    /\ prev' = entries
    /\ op' = Call("set", key, value, <<>>)
    /\ result' = None
    /\ UNCHANGED <<text, out, reparsed, out2, pc, ioVars, appVars>>

\* config.remove(key)
Remove(key) ==
    /\ pc = "edit"
    /\ entries' = remove(entries, key)
    /\ prev' = entries
    /\ op' = Call("remove", key, <<>>, <<>>)
    /\ result' = None
    /\ UNCHANGED <<text, out, reparsed, out2, pc, ioVars, appVars>>

\* config.set_repeatable(key, values)
SetRepeatable(key, values) ==
    /\ pc = "edit"
    /\ Len(set_repeatable(entries, key, values)) <= MaxEntries
    /\ entries' = set_repeatable(entries, key, values)
    /\ prev' = entries
    /\ op' = Call("set_repeatable", key, <<>>, values)
    /\ result' = None
    /\ UNCHANGED <<text, out, reparsed, out2, pc, ioVars, appVars>>

NextDoc ==
    \/ \E k \in Keys : Get(k)
    \/ \E k \in Keys : GetAll(k)
    \/ \E k \in Keys, v \in Values : Set(k, v)
    \/ \E k \in Keys : Remove(k)
    \/ \E k \in Keys, vs \in ValueLists : SetRepeatable(k, vs)
    \/ Serialize
    \/ Reparse

SpecDoc == InitDoc /\ [][NextDoc]_vars

----------------------------------------------------------------------------
(* SpecDiff: two documents, each parsed from a small config text, and the  *)
(* keys modified_keys reports between them.                                *)

DiffTexts == DocTextsOf(MaxDiffLines)

\* entries is self, prev is original.
InitDiff ==
    /\ text = <<>>
    /\ entries \in {parse_config(t) : t \in DiffTexts}
    /\ prev \in {parse_config(t) : t \in DiffTexts}
    /\ out = <<>>
    /\ reparsed = <<>>
    /\ out2 = <<>>
    /\ pc = "diff"
    /\ op = NoOp
    /\ result = None
    /\ IdleIO
    /\ IdleApp

\* changed = self.modified_keys(original)
ModifiedKeys ==
    /\ pc \in {"diff", "rewritten"}
    /\ result' = modified_keys(entries, prev)
    /\ op' = Call("modified_keys", <<>>, <<>>, <<>>)
    /\ pc' = IF pc = "diff" THEN "diffed" ELSE "rediffed"
    /\ UNCHANGED <<text, entries, out, reparsed, out2, prev, ioVars, appVars>>

\* self.set_repeatable(key, self.get_all(key)) on a copy of original (and
\* again on the result)
RewriteKey(key) ==
    /\ \/ pc = "diff" /\ entries = prev
       \/ pc = "rewritten"
    /\ entries' = set_repeatable(entries, key, get_all(entries, key))
    /\ op' = Call("set_repeatable", key, <<>>, get_all(entries, key))
    /\ result' = None
    /\ pc' = "rewritten"
    /\ UNCHANGED <<text, out, reparsed, out2, prev, ioVars, appVars>>

NextDiff ==
    \/ ModifiedKeys
    \/ \E k \in Keys : RewriteKey(k)

SpecDiff == InitDiff /\ [][NextDiff]_vars

----------------------------------------------------------------------------
(* SpecIO: a document read from a file (or parsed from a text, with no     *)
(* path), edited, written and backed up in any order.                      *)

\* The texts files hold at the start.
FileTextA == <<"a", SP, EQ, SP, "1", NL>>
FileTextB == <<HASH, SP, "c", CR, NL, "b", SP, EQ, SP, "1", CR, NL>>
StaleBackup == <<"a", SP, EQ, SP, "0", NL>>

InitialDisks ==
    {[f \in FileNames |->
         IF f = ConfigPath THEN c
         ELSE IF f = AltPath THEN a
         ELSE IF f = OldPath THEN o
         ELSE IF f = with_suffix(ConfigPath, ".bak") THEN b
         ELSE Absent] :
        c \in {Absent, FileTextA, FileTextB},
        a \in {Absent, FileTextB},
        o \in {Absent, FileTextA},
        b \in {Absent, StaleBackup}}

\* The key and the value the edits of SpecIO set and remove.
IOKeys == {<<"a">>}
IOValues == {<<"2">>}

InitIO ==
    /\ text = <<>>
    /\ entries = <<>>
    /\ out = <<>>
    /\ reparsed = <<>>
    /\ out2 = <<>>
    /\ pc = "start"
    /\ prev = <<>>
    /\ op = NoOp
    /\ result = None
    /\ disk \in InitialDisks
    /\ path = NoPath
    /\ backed_up = FALSE
    /\ IdleApp

\* config = read_config(p)
ReadConfig(p) ==
    /\ pc = "start"
    /\ LET c == read_config(disk, p)
       IN  /\ entries' = c.entries
           /\ path' = c.path
           /\ backed_up' = c.backed_up
    /\ pc' = "edit"
    /\ op' = Call("read_config", p, <<>>, <<>>)
    /\ result' = None
    /\ UNCHANGED <<text, out, reparsed, out2, prev, disk, appVars>>

\* config = parse_config(t): a document with no path
ParseUnbound(t) ==
    /\ pc = "start"
    /\ entries' = parse_config(t)
    /\ pc' = "edit"
    /\ op' = Call("parse_config", <<>>, <<>>, <<>>)
    /\ result' = None
    /\ UNCHANGED <<text, out, reparsed, out2, prev, ioVars, appVars>>

\* write_config(config, arg); arg = NoPath is the call without a path
WriteConfig(arg) ==
    /\ pc = "edit"
    /\ LET w == write_config(disk, entries, path, arg)
       IN  /\ disk' = w.disk
           /\ result' = w.ret
    /\ op' = Call("write_config", arg, <<>>, <<>>)
    /\ UNCHANGED <<text, entries, out, reparsed, out2, pc, prev, path,
                   backed_up, appVars>>

\* backup_config(config)
BackupConfig ==
    /\ pc = "edit"
    /\ LET b == backup_config(disk, path, backed_up)
       IN  /\ disk' = b.disk
           /\ backed_up' = b.backed_up
           /\ result' = b.ret
    /\ op' = Call("backup_config", <<>>, <<>>, <<>>)
    /\ UNCHANGED <<text, entries, out, reparsed, out2, pc, prev, path,
                   appVars>>

NextIO ==
    \/ \E p \in Paths : ReadConfig(p)
    \/ \E t \in {FileTextA} : ParseUnbound(t)
    \/ \E k \in IOKeys, v \in IOValues : Set(k, v)
    \/ \E k \in IOKeys : Remove(k)
    \/ \E arg \in Paths \cup {NoPath} : WriteConfig(arg)
    \/ BackupConfig

SpecIO == InitIO /\ [][NextIO]_vars

----------------------------------------------------------------------------
(* SpecLoad: the app starts and loads the config file and the provider's   *)
(* options.                                                                *)

\* The lines of the config file the app loads.
LoadLines ==
    {<<"a", SP, EQ, SP, "1">>,
     <<"a", SP, EQ, SP, "2">>,
     <<"a", SP, EQ>>,
     ThemeKey \o <<SP, EQ, SP, "1">>,
     <<HASH, SP, "c">>}

\* Config files of at most MaxLoadLines lines.
MaxLoadLines == 2
LoadTexts ==
    {join(<<NL>>, ls) \o <<NL>> :
        ls \in UNION {[1..n -> LoadLines] : n \in 1..MaxLoadLines}}

LoadDisks ==
    {[f \in FileNames |-> IF f = ConfigPath THEN c ELSE Absent] :
        c \in {Absent} \cup LoadTexts}

\* The options and the values get_config_with_docs can give: a string
\* (possibly empty) or the list of a repeatable option.
ProviderKeys == {<<"a">>, <<"b">>, ThemeKey}
ProviderValues ==
    {[islist |-> FALSE, value |-> <<"0">>],
     [islist |-> FALSE, value |-> <<>>],
     [islist |-> TRUE, value |-> <<<<"0">>, <<"9">>>>]}
ProviderData == UNION {[D -> ProviderValues] : D \in SUBSET ProviderKeys}

InitLoad ==
    /\ text = <<>>
    /\ entries = <<>>
    /\ out = <<>>
    /\ reparsed = <<>>
    /\ out2 = <<>>
    /\ pc = "boot"
    /\ prev = <<>>
    /\ op = NoOp
    /\ result = None
    /\ disk \in LoadDisks
    /\ path = NoPath
    /\ backed_up = FALSE
    /\ cli_data \in ProviderData
    /\ config_values = <<>>
    /\ original_theme = <<>>
    /\ IdleUI

\* self._load_data()
LoadData ==
    /\ pc = "boot"
    /\ LET c == read_config(disk, ConfigPath)
       IN  /\ entries' = c.entries
           /\ path' = c.path
           /\ backed_up' = c.backed_up
           /\ config_values' = load_values(c.entries, cli_data)
    /\ original_theme' = dict_get(config_values', ThemeKey, <<>>)
    /\ pc' = "loaded"
    /\ op' = Call("_load_data", <<>>, <<>>, <<>>)
    /\ UNCHANGED <<text, out, reparsed, out2, prev, result, disk, cli_data,
                   uiVars>>

NextLoad == LoadData

SpecLoad == InitLoad /\ [][NextLoad]_vars

----------------------------------------------------------------------------
(* SpecRow: one OptionRow, made, composed, edited through its widget, and  *)
(* told its saved value.                                                   *)

RowKey == <<"r">>
RowTypes == {"boolean", "string"}
RowValues == {<<>>, <<"1">>, <<"t">>, <<"T">>}
TrueText == <<"t", "r", "u", "e">>
FalseText == <<"f", "a", "l", "s", "e">>

InitRow ==
    /\ text = <<>>
    /\ entries = <<>>
    /\ out = <<>>
    /\ reparsed = <<>>
    /\ out2 = <<>>
    /\ pc = "norow"
    /\ prev = <<>>
    /\ op = NoOp
    /\ result = None
    /\ IdleIO
    /\ IdleApp

\* The variables no row operation touches.
rowFrame ==
    <<text, entries, out, reparsed, out2, prev, result, ioVars, cli_data,
      config_values, original_theme, has_unsaved, force_quit_pending,
      warned, session_file, installed_fonts, fonts_cache, list_fonts_calls>>

\* row = OptionRow(key, meta, current_value, ...)
NewRow(opt_type, default, value) ==
    /\ pc = "norow"
    /\ rows' = [k \in {RowKey} |-> new_row(k, opt_type, default, value)]
    /\ pc' = "row"
    /\ op' = Call("OptionRow", RowKey, value, <<>>)
    /\ UNCHANGED <<rowFrame, posted>>

\* the row is mounted: compose()
ComposeRow(k) ==
    /\ pc = "row"
    /\ rows[k].label = None
    /\ rows' = [rows EXCEPT ![k] = compose_row(@)]
    /\ op' = Call("compose", k, <<>>, <<>>)
    /\ UNCHANGED <<rowFrame, pc, posted>>

\* on_input_changed(event) with event.value = v
InputChanged(k, v) ==
    /\ pc = "row"
    /\ rows' = [rows EXCEPT ![k] = value_changed(@, v)]
    /\ posted' = TRUE
    /\ op' = Call("on_input_changed", k, v, <<>>)
    /\ UNCHANGED <<rowFrame, pc>>

\* on_switch_changed(event) with event.value = b
SwitchChanged(k, b) ==
    /\ pc = "row"
    /\ rows[k].type = "boolean"
    /\ LET new_val == IF b THEN TrueText ELSE FalseText
       IN  /\ rows' = [rows EXCEPT ![k] = value_changed(@, new_val)]
           /\ op' = Call("on_switch_changed", k, new_val, <<>>)
    /\ posted' = TRUE
    /\ UNCHANGED <<rowFrame, pc>>

\* update_original_value(v)
UpdateOriginalValue(k, v) ==
    /\ pc = "row"
    /\ rows' = [rows EXCEPT ![k] = update_original_value(@, v)]
    /\ op' = Call("update_original_value", k, v, <<>>)
    /\ UNCHANGED <<rowFrame, pc, posted>>

\* reset_to_default()
ResetToDefault(k) ==
    /\ pc = "row"
    /\ rows' = [rows EXCEPT ![k] = reset_to_default(@)]
    /\ posted' = TRUE
    /\ op' = Call("reset_to_default", k, rows[k].default, <<>>)
    /\ UNCHANGED <<rowFrame, pc>>

NextRow ==
    \/ \E ty \in RowTypes, d \in {<<>>, <<"1">>}, v \in RowValues :
           NewRow(ty, d, v)
    \/ ComposeRow(RowKey)
    \/ \E v \in RowValues : InputChanged(RowKey, v)
    \/ \E b \in BOOLEAN : SwitchChanged(RowKey, b)
    \/ \E v \in RowValues : UpdateOriginalValue(RowKey, v)
    \/ ResetToDefault(RowKey)

SpecRow == InitRow /\ [][NextRow]_vars

----------------------------------------------------------------------------
(* SpecApp: a session of the app: it loads the config file and makes the   *)
(* option rows; the user edits rows, previews, selects and reverts themes, *)
(* saves and presses q; each write succeeds or fails.                      *)

\* The options that have a row, in the order of the panels' rows.
AppRowOrder == <<<<"a">>>>
AppRowKeys == {AppRowOrder[i] : i \in 1..Len(AppRowOrder)}

\* The values the user gives a row, and the theme the user browses to.
EditValues == {<<>>, <<"2">>}
Themes == {<<"z">>}

\* The config files a session starts with (or with none).
AppLines(ls) == join(<<NL>>, ls) \o <<NL>>
AppTexts ==
    {AppLines(<<<<"a", SP, EQ, SP, "1">>>>),
     AppLines(<<<<"a", SP, EQ, SP, "1">>, <<"a", SP, EQ, SP, "3">>>>),
     AppLines(<<<<HASH, SP, "c">>,
                ThemeKey \o <<SP, EQ, SP, "x">>,
                <<"b", "a", "c", "k", "g", "r", "o", "u", "n", "d",
                  SP, EQ, SP, "1">>,
                PaletteKey \o <<SP, EQ, SP, "0">>,
                <<"b", SP, EQ, SP, "1">>>>),
     AppLines(<<ThemeKey \o <<SP, EQ, SP, "x">>,
                ThemeKey \o <<SP, EQ, SP, "y">>>>)}

AppDisks ==
    {[f \in FileNames |-> IF f = ConfigPath THEN c ELSE Absent] :
        c \in {Absent} \cup AppTexts}

\* What the provider reports for the options with a row.
AppProviderData ==
    {[k \in AppRowKeys |-> [islist |-> FALSE, value |-> <<"0">>]]}

InitApp ==
    /\ text = <<>>
    /\ entries = <<>>
    /\ out = <<>>
    /\ reparsed = <<>>
    /\ out2 = <<>>
    /\ pc = "boot"
    /\ prev = <<>>
    /\ op = NoOp
    /\ result = None
    /\ disk \in AppDisks
    /\ path = NoPath
    /\ backed_up = FALSE
    /\ cli_data \in AppProviderData
    /\ config_values = <<>>
    /\ original_theme = <<>>
    /\ IdleUI

\* The variables of the other specifications, which the app never touches.
appFrame ==
    <<text, out, reparsed, out2, prev, cli_data, installed_fonts,
      fonts_cache, list_fonts_calls>>

\* compose(): _load_data(), then one composed OptionRow per option, made
\* from _config_values (or the option's default, here the empty string)
ComposeApp ==
    /\ pc = "boot"
    /\ LET c == read_config(disk, ConfigPath)
           values == load_values(c.entries, cli_data)
       IN  /\ entries' = c.entries
           /\ path' = c.path
           /\ backed_up' = c.backed_up
           /\ config_values' = values
           /\ original_theme' = dict_get(values, ThemeKey, <<>>)
           /\ rows' = [k \in AppRowKeys |->
                          compose_row(new_row(k, "string", <<>>,
                                              dict_get(values, k, <<>>)))]
    /\ session_file' = disk[ConfigPath]
    /\ pc' = "mounted"
    /\ op' = Call("compose", <<>>, <<>>, <<>>)
    /\ UNCHANGED <<appFrame, result, disk, has_unsaved, force_quit_pending,
                   posted, warned>>

\* _enable_theme_preview(), called after the first refresh
EnableThemePreview ==
    /\ pc = "mounted"
    /\ pc' = "running"
    /\ op' = Call("_enable_theme_preview", <<>>, <<>>, <<>>)
    /\ UNCHANGED <<appFrame, entries, result, ioVars, config_values,
                   original_theme, rows, has_unsaved, force_quit_pending,
                   posted, warned, session_file>>

\* The user changes the value of a row's widget: on_input_changed, which
\* posts ValueChanged
EditRow(k, v) ==
    /\ pc = "running"
    /\ v # rows[k].current_value
    /\ rows' = [rows EXCEPT ![k] = value_changed(@, v)]
    /\ posted' = TRUE
    /\ op' = Call("on_input_changed", k, v, <<>>)
    /\ UNCHANGED <<appFrame, entries, pc, result, ioVars, config_values,
                   original_theme, has_unsaved, force_quit_pending, warned,
                   session_file>>

\* on_option_row_value_changed(event)
OnValueChanged ==
    /\ pc = "running"
    /\ posted
    /\ posted' = FALSE
    /\ has_unsaved' = (collect_changes(rows) # {})
    /\ op' = Call("on_option_row_value_changed", <<>>, <<>>, <<>>)
    /\ UNCHANGED <<appFrame, entries, pc, result, ioVars, config_values,
                   original_theme, rows, force_quit_pending, warned,
                   session_file>>

\* _apply_theme(theme): backup, set the theme and remove the color
\* overrides in the document, then write it; a failing write is reported
\* and swallowed
ApplyTheme(theme, ok) ==
    LET b == backup_config(disk, path, backed_up)
        es == theme_entries(entries, theme)
        w == write_config_env(b.disk, es, path, ok)
    IN  /\ entries' = es
        /\ backed_up' = b.backed_up
        /\ disk' = w.disk
        /\ result' = w.ret

\* on_theme_browser_theme_highlighted(event): ignored until the preview is
\* enabled
ThemeHighlighted(theme, ok) ==
    /\ pc \in {"mounted", "running"}
    /\ IF pc = "running" THEN ApplyTheme(theme, ok)
       ELSE UNCHANGED <<entries, backed_up, disk, result>>
    /\ op' = Call("on_theme_browser_theme_highlighted", <<>>, theme, <<>>)
    /\ UNCHANGED <<appFrame, pc, path, config_values, original_theme, rows,
                   has_unsaved, force_quit_pending, posted, warned,
                   session_file>>

\* on_theme_browser_theme_selected(event)
ThemeSelected(theme) ==
    /\ pc = "running"
    /\ original_theme' = theme
    /\ op' = Call("on_theme_browser_theme_selected", <<>>, theme, <<>>)
    /\ UNCHANGED <<appFrame, entries, pc, result, ioVars, config_values,
                   rows, has_unsaved, force_quit_pending, posted, warned,
                   session_file>>

\* on_theme_browser_theme_reverted(event)
ThemeReverted(ok) ==
    /\ pc = "running"
    /\ ApplyTheme(original_theme, ok)
    /\ op' = Call("on_theme_browser_theme_reverted", <<>>, original_theme,
                  <<>>)
    /\ UNCHANGED <<appFrame, pc, path, config_values, original_theme, rows,
                   has_unsaved, force_quit_pending, posted, warned,
                   session_file>>

\* What action_save reports.
NoChanges == <<"<No changes to save.>">>
Saved == <<"<Config saved>">>

\* action_save(): nothing to do without changes; else backup, apply the
\* changes to the document and write it; only after a write that succeeded
\* are _config_values and the rows updated and has_unsaved cleared
ActionSave(ok) ==
    /\ pc = "running"
    /\ IF collect_changes(rows) = {}
       THEN /\ result' = NoChanges
            /\ UNCHANGED <<entries, ioVars, config_values, rows,
                           has_unsaved, warned>>
       ELSE LET b == backup_config(disk, path, backed_up)
                es == save_entries(entries, AppRowOrder, rows)
                w == write_config_env(b.disk, es, path, ok)
            IN  /\ entries' = es
                /\ backed_up' = b.backed_up
                /\ disk' = w.disk
                /\ path' = path
                /\ IF w.ret = None
                   THEN /\ config_values' =
                               saved_values(config_values, AppRowOrder, rows)
                        /\ rows' = saved_rows(rows)
                        /\ has_unsaved' = FALSE
                        /\ warned' = FALSE
                        /\ result' = Saved
                   ELSE /\ result' = w.ret
                        /\ UNCHANGED <<config_values, rows, has_unsaved,
                                       warned>>
    /\ op' = Call("action_save", <<>>, <<>>, <<>>)
    /\ UNCHANGED <<appFrame, pc, original_theme, force_quit_pending, posted,
                   session_file>>

\* action_quit_app(): the q key
ActionQuitApp ==
    /\ pc = "running"
    /\ IF has_unsaved
       THEN /\ warned' = TRUE
            /\ IF force_quit_pending
               THEN pc' = "exited" /\ UNCHANGED force_quit_pending
               ELSE force_quit_pending' = TRUE /\ UNCHANGED pc
       ELSE pc' = "exited" /\ UNCHANGED <<force_quit_pending, warned>>
    /\ op' = Call("action_quit_app", <<>>, <<>>, <<>>)
    /\ UNCHANGED <<appFrame, entries, result, ioVars, config_values,
                   original_theme, rows, has_unsaved, posted, session_file>>

NextApp ==
    \/ ComposeApp
    \/ EnableThemePreview
    \/ \E k \in AppRowKeys, v \in EditValues : EditRow(k, v)
    \/ OnValueChanged
    \/ \E t \in Themes, ok \in BOOLEAN : ThemeHighlighted(t, ok)
    \/ \E t \in Themes : ThemeSelected(t)
    \/ \E ok \in BOOLEAN : ThemeReverted(ok)
    \/ \E ok \in BOOLEAN : ActionSave(ok)
    \/ ActionQuitApp

SpecApp == InitApp /\ [][NextApp]_vars

----------------------------------------------------------------------------
(* SpecFonts: get_fonts is called any number of times while fonts are      *)
(* installed and removed on the system.                                    *)

\* list_fonts calls are counted up to this number.
MaxListFontsCalls == 3

InitFonts ==
    /\ text = <<>>
    /\ entries = <<>>
    /\ out = <<>>
    /\ reparsed = <<>>
    /\ out2 = <<>>
    /\ pc = "fonts"
    /\ prev = <<>>
    /\ op = NoOp
    /\ result = None
    /\ IdleIO
    /\ cli_data = <<>>
    /\ config_values = <<>>
    /\ original_theme = <<>>
    /\ rows = <<>>
    /\ has_unsaved = FALSE
    /\ force_quit_pending = FALSE
    /\ posted = FALSE
    /\ warned = FALSE
    /\ session_file = Absent
    /\ installed_fonts \in SUBSET ExtraFonts
    /\ fonts_cache = None
    /\ list_fonts_calls = 0

\* The variables the font list does not touch.
fontFrame ==
    <<text, entries, out, reparsed, out2, pc, prev, ioVars, cli_data,
      config_values, original_theme, rows, has_unsaved, force_quit_pending,
      posted, warned, session_file>>

\* fonts = get_fonts()
GetFonts ==
    /\ list_fonts_calls < MaxListFontsCalls
    /\ LET g == get_fonts(fonts_cache, installed_fonts, list_fonts_calls)
       IN  /\ fonts_cache' = g.cache
           /\ list_fonts_calls' = g.calls
           /\ result' = g.ret
    /\ op' = Call("get_fonts", <<>>, <<>>, <<>>)
    /\ UNCHANGED <<fontFrame, installed_fonts>>

\* A font family is installed on the system.
InstallFont(f) ==
    /\ f \notin installed_fonts
    /\ installed_fonts' = installed_fonts \cup {f}
    /\ op' = Call("install", f, <<>>, <<>>)
    /\ UNCHANGED <<fontFrame, result, fonts_cache, list_fonts_calls>>

\* A font family is removed from the system.
RemoveFont(f) ==
    /\ f \in installed_fonts
    /\ installed_fonts' = installed_fonts \ {f}
    /\ op' = Call("uninstall", f, <<>>, <<>>)
    /\ UNCHANGED <<fontFrame, result, fonts_cache, list_fonts_calls>>

NextFonts ==
    \/ GetFonts
    \/ \E f \in ExtraFonts : InstallFont(f)
    \/ \E f \in ExtraFonts : RemoveFont(f)

SpecFonts == InitFonts /\ [][NextFonts]_vars

----------------------------------------------------------------------------
(* Round trips of the parser and the serializer (SpecText).                *)

\* The lines of a text whose lines all end in a newline.
TerminatedLines(t) == splitlines(t)

IsBlankLine(l) == \A i \in 1..Len(l) : l[i] = SP

IsCommentLine(l) == startswith(lstrip(l), HASH)

\* key = value, written with exactly one space on each side of the "=":
\* a key with no "=" and no outer space that does not start a comment, and
\* a non-empty value with no outer space that does not open with a quote.
IsSimpleOptionLine(l) ==
    \E i \in 1..Len(l) :
        LET key == SubSeq(l, 1, i - 1)
            value == SubSeq(l, i + 3, Len(l))
        IN  /\ i + 2 <= Len(l)
            /\ SubSeq(l, i, i + 2) = <<SP, EQ, SP>>
            /\ key # <<>> /\ key = strip(key)
            /\ ~contains(key, EQ) /\ ~startswith(key, HASH)
            /\ value # <<>> /\ value = strip(value)
            /\ ~startswith(value, DQ) /\ ~startswith(value, SQ)

\* A text of newline-terminated lines, each a comment line, a blank line
\* or a simple unquoted key = value line.
IsSimpleText(t) ==
    /\ ~contains(t, CR)
    /\ t = <<>> \/ endswith(t, NL)
    /\ \A i \in 1..Len(TerminatedLines(t)) :
           LET l == TerminatedLines(t)[i]
           IN  IsBlankLine(l) \/ IsCommentLine(l) \/ IsSimpleOptionLine(l)

\* C1: for every text of comment lines, blank lines and simple unquoted
\* key = value lines, to_text(parse_config(text)) is the text itself.
C1_RoundTrip ==
    (pc \in {"serialized", "reparsed", "done"} /\ IsSimpleText(text))
        => out = text

\* C2: serializing is idempotent, for any input text:
\* to_text(parse_config(to_text(parse_config(text)))) equals
\* to_text(parse_config(text)).
C2_IdempotentSerialize == pc = "done" => out2 = out

----------------------------------------------------------------------------
(* The accessors' contracts (SpecDoc).                                     *)

\* The positions of the option entries of es with the given key.
OptionIdx(es, key) ==
    {i \in 1..Len(es) : es[i].kind = "option" /\ es[i].key = key}

\* The positions of all other entries of es.
OtherIdx(es, key) == (1..Len(es)) \ OptionIdx(es, key)

\* The n-th smallest member of a set of positions.
Nth(S, n) == CHOOSE i \in S : Cardinality({j \in S : j <= i}) = n

First(S) == CHOOSE i \in S : \A j \in S : i <= j
Last(S) == CHOOSE i \in S : \A j \in S : j <= i

\* C3: a document reached from parse_config by set / remove /
\* set_repeatable reads back from its own to_text() with the same entries:
\* the same options, comments and blanks in the same order.
C3_SemanticRoundTrip == pc = "reparsed" => reparsed = entries

\* C4: after set(k, v), get(k) returns v, whatever entries the document
\* held (several options with the same key included).
C4_SetThenGet == op.name = "set" => get(entries, op.key) = op.value

\* C5: get(key) returns the value of the last option entry with that key,
\* and None exactly when the document has no option entry with that key.
C5_GetLastWins ==
    op.name = "get" =>
        LET idx == OptionIdx(entries, op.key)
        IN  /\ (result = None) <=> (idx = {})
            /\ idx # {} => result = entries[Last(idx)].value

\* A get on a key held by two entries with different values, the last one
\* followed by some other entry.
C5_Witness ==
    /\ op.name = "get"
    /\ LET idx == OptionIdx(entries, op.key)
       IN  /\ Cardinality(idx) >= 2
           /\ entries[First(idx)].value # entries[Last(idx)].value
           /\ Last(idx) < Len(entries)

\* C6: get_all(key) returns the values of all option entries with that key
\* in sequence order, duplicates kept, and the empty list when there is none.
C6_GetAllInOrder ==
    op.name = "get_all" =>
        LET idx == OptionIdx(entries, op.key)
        IN  /\ Len(result) = Cardinality(idx)
            /\ \A n \in 1..Len(result) : result[n] = entries[Nth(idx, n)].value

\* A get_all that returned two different values.
C6_Witness ==
    /\ op.name = "get_all"
    /\ Len(result) >= 2
    /\ result[1] # result[2]

\* C7: set(key, value) on a document holding an option with that key
\* changes the value of the first such entry and nothing else.
C7_SetExistingFirstOnly ==
    (op.name = "set" /\ OptionIdx(prev, op.key) # {}) =>
        LET f == First(OptionIdx(prev, op.key))
        IN  /\ Len(entries) = Len(prev)
            /\ entries[f] = [prev[f] EXCEPT !.value = op.value]
            /\ \A j \in 1..Len(prev) : j # f => entries[j] = prev[j]

\* A set that changed the first of two entries with the key, the second
\* one holding yet another value.
C7_Witness ==
    /\ op.name = "set"
    /\ LET idx == OptionIdx(prev, op.key)
       IN  /\ Cardinality(idx) >= 2
           /\ prev[First(idx)].value # op.value
           /\ prev[Last(idx)].value # op.value
           /\ entries # prev

\* C8: set(key, value) on a document with no option for that key appends
\* one option entry (key, value) and leaves the existing entries in place.
C8_SetNewAppends ==
    (op.name = "set" /\ OptionIdx(prev, op.key) = {}) =>
        /\ Len(entries) = Len(prev) + 1
        /\ \A j \in 1..Len(prev) : entries[j] = prev[j]
        /\ entries[Len(entries)].kind = "option"
        /\ entries[Len(entries)].key = op.key
        /\ entries[Len(entries)].value = op.value

\* A set of a new key on a document that held two entries or more.
C8_Witness ==
    /\ op.name = "set"
    /\ OptionIdx(prev, op.key) = {}
    /\ Len(prev) >= 2
    /\ \E i \in 1..Len(prev) : prev[i].kind = "option"

\* C9: remove(key) deletes every option entry with that key and keeps all
\* other entries unchanged in their order; an absent key changes nothing.
C9_RemoveAll ==
    op.name = "remove" =>
        LET keep == OtherIdx(prev, op.key)
        IN  /\ get_all(entries, op.key) = <<>>
            /\ get(entries, op.key) = None
            /\ Len(entries) = Cardinality(keep)
            /\ \A n \in 1..Len(entries) : entries[n] = prev[Nth(keep, n)]
            /\ OptionIdx(prev, op.key) = {} => entries = prev

\* A remove of a key held by two entries, with other entries among them.
C9_Witness ==
    /\ op.name = "remove"
    /\ Cardinality(OptionIdx(prev, op.key)) >= 2
    /\ Len(entries) >= 2

\* C10: set_repeatable(key, values) removes the key's entries and appends
\* one option per value in the given order: get_all(key) is values, the new
\* entries are the last ones, the other entries keep their order.
C10_SetRepeatable ==
    op.name = "set_repeatable" =>
        LET keep == OtherIdx(prev, op.key)
            n == Len(op.values)
            m == Cardinality(keep)
        IN  /\ get_all(entries, op.key) = op.values
            /\ Len(entries) = m + n
            /\ \A i \in 1..n :
                   /\ entries[m + i].kind = "option"
                   /\ entries[m + i].key = op.key
                   /\ entries[m + i].value = op.values[i]
            /\ \A i \in 1..m : entries[i] = prev[Nth(keep, i)]

\* A set_repeatable of two different values over a key the document held
\* before some other entry.
C10_Witness ==
    /\ op.name = "set_repeatable"
    /\ Len(op.values) = 2
    /\ op.values[1] # op.values[2]
    /\ \E i, j \in 1..Len(prev) :
           i < j /\ IsOption(prev[i], op.key) /\ ~IsOption(prev[j], op.key)

----------------------------------------------------------------------------
(* The diff of two documents (SpecDiff).                                   *)

\* The keys that may occur: those of the documents and one that never does.
AnyKeys == Keys \cup {<<"z">>}

\* The values of the option entries of es with the key, in position order.
ValuesInOrder(es, key) ==
    LET idx == OptionIdx(es, key)
    IN  [n \in 1..Cardinality(idx) |-> es[Nth(idx, n)].value]

\* C11: a key is in self.modified_keys(original) exactly when it is an
\* option key of one of the two documents and its ordered list of values
\* differs between them.
C11_ModifiedKeys ==
    op.name = "modified_keys" =>
        \A k \in AnyKeys \cup result :
            k \in result <=>
                /\ OptionIdx(entries, k) # {} \/ OptionIdx(prev, k) # {}
                /\ ValuesInOrder(entries, k) # ValuesInOrder(prev, k)

\* A diff that reports one key that only original holds, and not another
\* key whose values are the same in both documents.
C11_Witness ==
    /\ op.name = "modified_keys"
    /\ \E k \in result : OptionIdx(entries, k) = {}
    /\ \E k \in Keys : OptionIdx(entries, k) # {} /\ k \notin result

----------------------------------------------------------------------------
(* The serializer's and the parser's line format (SpecText).               *)

\* The pieces of a text between its newlines, the piece after the last
\* newline included (empty when the text ends in a newline).
RECURSIVE SegFrom(_, _, _, _)
SegFrom(t, i, cur, acc) ==
    IF i > Len(t) THEN Append(acc, cur)
    ELSE IF t[i] = NL THEN SegFrom(t, i + 1, <<>>, Append(acc, cur))
         ELSE SegFrom(t, i + 1, Append(cur, t[i]), acc)

NLSegments(t) == SegFrom(t, 1, <<>>, <<>>)

Serialized == pc \in {"serialized", "reparsed", "done"}

\* A value that is empty or has whitespace at either end.
NeedsQuotes(v) ==
    v = <<>> \/ v[1] \in Whitespace \/ v[Len(v)] \in Whitespace

\* The line the format asks for: raw for a comment or a blank,
\* key = value for an option, the value in double quotes when it needs them.
FormatLine(e) ==
    IF e.kind = "option"
    THEN e.key \o <<SP, EQ, SP>>
             \o (IF NeedsQuotes(e.value)
                 THEN <<DQ>> \o e.value \o <<DQ>> ELSE e.value)
    ELSE e.raw

\* C12: to_text writes an option entry as key = value, the value wrapped in
\* double quotes exactly when it is empty or has leading or trailing
\* whitespace.
C12_QuotingOnSerialize ==
    Serialized =>
        \A i \in 1..Len(entries) :
            entries[i].kind = "option" =>
                NLSegments(out)[i] = FormatLine(entries[i])

\* A serialized document with an option whose value is not empty and has
\* outer whitespace, written in double quotes.
C12_Witness ==
    /\ Serialized
    /\ \E i \in 1..Len(entries) :
           /\ entries[i].kind = "option"
           /\ entries[i].value # <<>>
           /\ NeedsQuotes(entries[i].value)
           /\ NLSegments(out)[i] =
                  entries[i].key \o <<SP, EQ, SP, DQ>> \o entries[i].value
                      \o <<DQ>>

\* C13: to_text writes one line per entry in order (raw for comments and
\* blanks), joined by single newlines; one newline is appended when the
\* joined text is non-empty and does not end with one, so a non-empty
\* result ends with a newline; an empty document gives the empty text.
C13_LinesJoined ==
    Serialized =>
        LET segs == NLSegments(out)
            n == Len(entries)
        IN  /\ n = 0 => out = <<>>
            /\ out # <<>> => out[Len(out)] = NL
            /\ n > 0 =>
                   /\ \A i \in 1..n : segs[i] = FormatLine(entries[i])
                   /\ Len(segs) = (IF FormatLine(entries[n]) # <<>>
                                   THEN n + 1 ELSE n)
                   /\ Len(segs) = n + 1 => segs[n + 1] = <<>>

\* A serialized document of a comment, a blank and an option, the last
\* line not empty.
C13_Witness ==
    /\ Serialized
    /\ Len(entries) >= 3
    /\ \E i \in 1..Len(entries) : entries[i].kind = "comment"
    /\ \E i \in 1..Len(entries) : entries[i].kind = "blank"
    /\ \E i \in 1..Len(entries) : entries[i].kind = "option"
    /\ FormatLine(entries[Len(entries)]) # <<>>

\* The positions where a line boundary of the text ends (CR NL is one).
TermEnds(t) ==
    {i \in 1..Len(t) :
        /\ t[i] \in LineBreaks
        /\ ~(t[i] = CR /\ i < Len(t) /\ t[i + 1] = NL)}

\* The length of the line boundary that ends at position p.
TermLen(t, p) == IF t[p] = NL /\ p > 1 /\ t[p - 1] = CR THEN 2 ELSE 1

\* The number of physical lines of a text: one per line boundary, and one
\* more for text after the last boundary.
LineCount(t) ==
    Cardinality(TermEnds(t))
        + (IF t # <<>> /\ Len(t) \notin TermEnds(t) THEN 1 ELSE 0)

\* The n-th physical line, without its line boundary.
LineAt(t, n) ==
    LET ends == TermEnds(t)
        start == IF n = 1 THEN 1 ELSE Nth(ends, n - 1) + 1
        stop == IF n <= Cardinality(ends)
                THEN Nth(ends, n) - TermLen(t, Nth(ends, n))
                ELSE Len(t)
    IN  SubSeq(t, start, stop)

\* The positions of a line's characters that are not whitespace.
NonSpace(l) == {i \in 1..Len(l) : l[i] \notin Whitespace}

Parsed == pc # "start"

\* C14: parse_config gives one entry per physical line, in line order:
\* blank for an all-whitespace line, comment for a line whose first
\* non-blank character is #, option for a line with an "=", and otherwise a
\* comment; blank and comment entries keep the original line as raw.
C14_OneEntryPerLine ==
    Parsed =>
        /\ Len(entries) = LineCount(text)
        /\ \A n \in 1..Len(entries) :
               LET l == LineAt(text, n)
                   e == entries[n]
               IN  IF NonSpace(l) = {}
                   THEN e.kind = "blank" /\ e.raw = l
                   ELSE IF l[First(NonSpace(l))] = HASH
                        THEN e.kind = "comment" /\ e.raw = l
                        ELSE IF \E i \in 1..Len(l) : l[i] = EQ
                             THEN e.kind = "option"
                             ELSE e.kind = "comment" /\ e.raw = l

\* A parse of three lines or more, with a blank line and a line that is
\* neither blank, comment nor option.
C14_Witness ==
    /\ Parsed
    /\ Len(entries) >= 3
    /\ \E n \in 1..Len(entries) : entries[n].kind = "blank"
    /\ \E n \in 1..Len(entries) :
           /\ entries[n].kind = "comment"
           /\ entries[n].raw[First(NonSpace(entries[n].raw))] # HASH

\* A text wrapped in one pair of matching quotes.
WrappedInPair(v) ==
    Len(v) >= 2 /\ v[1] = v[Len(v)] /\ v[1] \in {DQ, SQ}

\* C15: an option line is split on its first "=": the key is the trimmed
\* left part, the value the trimmed right part, without its outer pair of
\* matching quotes when it is wrapped in one, and as it is otherwise.
C15_OptionLine ==
    Parsed =>
        \A n \in 1..Len(entries) :
            entries[n].kind = "option" =>
                LET l == LineAt(text, n)
                    i == First({j \in 1..Len(l) : l[j] = EQ})
                    left == strip(SubSeq(l, 1, i - 1))
                    right == strip(SubSeq(l, i + 1, Len(l)))
                IN  /\ entries[n].key = left
                    /\ entries[n].value =
                           (IF WrappedInPair(right)
                            THEN SubSeq(right, 2, Len(right) - 1)
                            ELSE right)


----------------------------------------------------------------------------
(* Backup, write and read of the config file                               *)

\* The backup file of the document's path.
BackupPath == with_suffix(path, ".bak")

\* C16: the _backed_up flag of a document only moves from False to True and
\* is never reset; once a backup was made, every later backup_config call on
\* the document returns None and leaves every file, the .bak file included,
\* as it is, whatever was written in between.
C16_BackupOnce ==
    [][ /\ (backed_up => backed_up')
        /\ (backed_up /\ op'.name = "backup_config"
              => result' = None /\ disk' = disk) ]_vars

\* A backup_config call on a backed-up document whose file was rewritten
\* since the backup: it returned None and the .bak file still differs.
C16_Witness ==
    /\ op.name = "backup_config"
    /\ backed_up
    /\ result = None
    /\ disk[path] # Absent
    /\ disk[BackupPath] # Absent
    /\ disk[BackupPath] # disk[path]

\* C17: backup_config returns None and raises nothing when the document has
\* no path, when its file does not exist, or when it is already backed up; in
\* the first two cases the flag stays False and no file is created; in every
\* other case it copies the file on disk to the sibling .bak path, sets the
\* flag and returns the backup path.
C17_BackupContract ==
    [][ op'.name = "backup_config" =>
          IF path = NoPath
          THEN result' = None /\ ~backed_up' /\ disk' = disk
          ELSE IF disk[path] = Absent
          THEN result' = None /\ ~backed_up' /\ disk' = disk
          ELSE IF backed_up
          THEN result' = None /\ backed_up' /\ disk' = disk
          ELSE /\ disk' = [disk EXCEPT ![BackupPath] = disk[path]]
               /\ backed_up'
               /\ result' = BackupPath ]_vars

\* C18: write_config with no path argument on a document without path
\* raises an error and writes nothing; otherwise it writes to_text() of the
\* document to the path argument if there is one, else to the document's
\* path, and touches no other file; the document is never modified.
C18_WriteConfig ==
    [][ op'.name = "write_config" =>
          /\ entries' = entries /\ path' = path /\ backed_up' = backed_up
          /\ IF op'.key = NoPath /\ path = NoPath
             THEN result' = ValueError /\ disk' = disk
             ELSE LET p == IF op'.key # NoPath THEN op'.key ELSE path
                  IN  /\ disk' = [disk EXCEPT ![p] = to_text(entries)]
                      /\ result' = None ]_vars

\* A write with a path argument by a document bound to another path, whose
\* own file holds something else.
C18_Witness ==
    /\ op.name = "write_config"
    /\ op.key = AltPath
    /\ path = ConfigPath
    /\ result = None
    /\ disk[AltPath] = to_text(entries)
    /\ disk[ConfigPath] # to_text(entries)

\* C19: read_config of a path with no file gives a document with no
\* entries, bound to that path and not backed up, and a write_config of a
\* document bound to a path leaves a file there; read_config of an existing
\* file gives parse_config of the file's text, bound to that path.
C19_ReadConfig ==
    /\ op.name = "read_config" =>
         /\ path = op.key
         /\ ~backed_up
         /\ entries = IF disk[op.key] = Absent THEN <<>>
                      ELSE parse_config(disk[op.key])
    /\ (op.name = "write_config" /\ op.key = NoPath /\ path # NoPath) =>
         disk[path] = to_text(entries)

\* read_config of a path with no file.
C19_Witness ==
    /\ op.name = "read_config"
    /\ disk[op.key] = Absent
    /\ path = op.key
    /\ entries = <<>>


----------------------------------------------------------------------------
(* Values shown by the app                                                 *)

\* C20: after _load_data, for every key the provider supplies,
\* _config_values[key] is get(key) of the config file when the file has an
\* option entry for the key (an empty value included), and the provider's
\* value (a list joined with ", ") only when the file has none.
C20_FilePrecedence ==
    pc = "loaded" =>
        LET file == IF disk[ConfigPath] = Absent THEN <<>>
                    ELSE parse_config(disk[ConfigPath])
        IN  /\ DOMAIN config_values = DOMAIN cli_data
            /\ \A k \in DOMAIN cli_data :
                 IF OptionIdx(file, k) # {}
                 THEN /\ config_values[k] = get(file, k)
                      /\ config_values[k] = file[Last(OptionIdx(file, k))].value
                 ELSE config_values[k] = provider_value(cli_data[k])

\* A load where the file overrides one provider value with an empty value
\* and leaves another option to the provider.
C20_Witness ==
    /\ pc = "loaded"
    /\ \E k \in DOMAIN cli_data :
         /\ OptionIdx(entries, k) # {}
         /\ config_values[k] = <<>>
         /\ provider_value(cli_data[k]) # <<>>
    /\ \E k \in DOMAIN cli_data :
         /\ OptionIdx(entries, k) = {}
         /\ config_values[k] = provider_value(cli_data[k])
         /\ cli_data[k].islist

----------------------------------------------------------------------------
(* The modified state of an option row (SpecRow)                           *)

\* C21: after any sequence of value changes and update_original_value
\* calls a row is modified exactly when its current value differs from its
\* original value (and a composed row's label carries the mark exactly
\* then); a new row is unmodified; update_original_value(v) with v the
\* current value clears the modified state, and so does changing the value
\* back to the original value.
C21_ModifiedState ==
    [][ LET old == rows[RowKey]
            new == rows'[RowKey]
        IN  /\ is_modified(new) <=> new.current_value # new.original_value
            /\ new.label # None =>
                 (new.label = new.key \o <<SP, "*">> <=> is_modified(new))
            /\ op'.name = "OptionRow" => ~is_modified(new)
            /\ (op'.name = "update_original_value"
                  /\ op'.value = old.current_value) => ~is_modified(new)
            /\ (op'.name \in {"on_input_changed", "on_switch_changed",
                              "reset_to_default"}
                  /\ op'.value = old.original_value) => ~is_modified(new)
      ]_vars

\* A new boolean row made from an upper-case value: the value is lowered
\* and the row is not modified.
C21_Witness ==
    /\ op.name = "OptionRow"
    /\ op.value = <<"T">>
    /\ rows[RowKey].current_value = <<"t">>
    /\ ~is_modified(rows[RowKey])

----------------------------------------------------------------------------
(* Saving, theme preview and quitting (SpecApp)                            *)

\* The entries read_config gives for the config file on file system d.
FileEntries(d) == read_config(d, ConfigPath).entries

\* C22: after an action_save with modified rows whose write succeeds,
\* re-reading the config file gives get(key) = the row's new value for
\* every changed key with a non-empty value, whatever the file held before;
\* no row is modified any more and has_unsaved is false.
C22_SavePersists ==
    [][ (op'.name = "action_save" /\ result' = Saved) =>
          /\ \A k \in collect_changes(rows) :
                 rows[k].current_value # <<>> =>
                     get(FileEntries(disk'), k) = rows[k].current_value
          /\ \A k \in AppRowKeys : ~is_modified(rows'[k])
          /\ ~has_unsaved' ]_vars

\* C23: in action_save a changed option whose new value is the empty
\* string is removed from the document, so that after a save that wrote the
\* file the file has no entry for the key; a changed option with a
\* non-empty value is written with set.
C23_EmptyValueRemoves ==
    [][ (op'.name = "action_save" /\ collect_changes(rows) # {}) =>
          \A k \in collect_changes(rows) :
              IF rows[k].current_value = <<>>
              THEN /\ OptionIdx(entries', k) = {}
                   /\ \A i \in 1..Len(entries') :
                          entries'[i] \in {entries[j] : j \in 1..Len(entries)}
                   /\ result' = Saved =>
                          OptionIdx(FileEntries(disk'), k) = {}
              ELSE entries' = set(entries, k, rows[k].current_value) ]_vars

\* A save of a row emptied by the user, for an option the file held twice:
\* the written file has no entry for it.
C23_Witness ==
    /\ op.name = "action_save"
    /\ result = Saved
    /\ session_file # Absent
    /\ Cardinality(OptionIdx(parse_config(session_file), <<"a">>)) = 2
    /\ rows[<<"a">>].current_value = <<>>
    /\ OptionIdx(FileEntries(disk), <<"a">>) = {}
    /\ disk[ConfigPath] # session_file

\* The entries of es that _apply_theme leaves alone.
ThemeFrame(es) ==
    SelectSeq(es, LAMBDA e :
        ~(e.kind = "option"
            /\ e.key \in THEME_COLOR_KEYS \cup {PaletteKey, ThemeKey}))

\* C24: after _apply_theme(t), by live preview or by revert (t the
\* original theme), get("theme") of the document is t, the document has no
\* option entry for a key of THEME_COLOR_KEYS nor for palette, all other
\* entries are unchanged, and the document is written to its path (when the
\* write does not fail).
C24_ApplyTheme ==
    [][ (/\ op'.name \in {"on_theme_browser_theme_highlighted",
                          "on_theme_browser_theme_reverted"}
         /\ pc = "running") =>
          /\ get(entries', ThemeKey) = op'.value
          /\ op'.name = "on_theme_browser_theme_reverted" =>
                 op'.value = original_theme
          /\ \A k \in THEME_COLOR_KEYS \cup {PaletteKey} :
                 OptionIdx(entries', k) = {}
          /\ ThemeFrame(entries') = ThemeFrame(entries)
          /\ result' = None => disk'[path'] = to_text(entries') ]_vars

----------------------------------------------------------------------------
(* The font cache (SpecFonts)                                              *)

\* C25: get_fonts calls list_fonts at most once per process, on the first
\* get_fonts call; every later call returns the cached list without
\* calling list_fonts; the cache, once filled, never changes.
C25_FontCache ==
    [][ /\ list_fonts_calls' <= 1
        /\ (list_fonts_calls' = 0) <=> (fonts_cache' = None)
        /\ fonts_cache # None => fonts_cache' = fonts_cache
        /\ op'.name = "get_fonts" =>
             /\ result' = fonts_cache'
             /\ fonts_cache' # None
             /\ fonts_cache = None =>
                  /\ fonts_cache' = list_fonts(installed_fonts)
                  /\ list_fonts_calls' = list_fonts_calls + 1
             /\ fonts_cache # None =>
                  list_fonts_calls' = list_fonts_calls ]_vars

\* A get_fonts call that returned the cached list after the installed
\* fonts had changed.
C25_Witness ==
    /\ op.name = "get_fonts"
    /\ list_fonts_calls = 1
    /\ result = fonts_cache
    /\ fonts_cache # list_fonts(installed_fonts)

----------------------------------------------------------------------------
(* The quit guard (SpecApp)                                                *)

\* C26: a q press while has_unsaved is false exits; a q press while
\* has_unsaved is true exits only if an earlier q press showed the warning
\* and no save has succeeded since, and otherwise only warns and the app
\* keeps running.
C26_QuitGuard ==
    [][ op'.name = "action_quit_app" =>
          IF ~has_unsaved THEN pc' = "exited"
          ELSE /\ pc' = "exited" => warned
               /\ ~warned => (pc' = "running" /\ warned') ]_vars

----------------------------------------------------------------------------
(* Key isolation of the edits (SpecDoc)                                    *)

\* The comment and blank entries of es, in order.
NonOptions(es) == SelectSeq(es, LAMBDA e : e.kind # "option")

\* C27: set, remove and set_repeatable on a key change get_all and get of
\* no other key, and change, remove or reorder no comment or blank entry:
\* over any sequence of operations the comment and blank entries stay the
\* same entries in the same order.
C27_KeyIsolation ==
    [][ /\ NonOptions(entries') = NonOptions(entries)
        /\ op'.name \in {"set", "remove", "set_repeatable"} =>
             \A k \in AnyKeys \ {op'.key} :
                 /\ get_all(entries', k) = get_all(entries, k)
                 /\ get(entries', k) = get(entries, k) ]_vars

\* A set_repeatable that changed the document while another key had
\* entries and a comment or blank stood between the options.
C27_Witness ==
    /\ op.name = "set_repeatable"
    /\ entries # prev
    /\ \E k \in Keys \ {op.key} : Cardinality(OptionIdx(entries, k)) >= 1
    /\ \E i, j \in 1..Len(entries) :
           i < j /\ entries[i].kind # "option" /\ entries[j].kind = "option"

----------------------------------------------------------------------------
(* The backup file of a session (SpecApp)                                  *)

\* The .bak file of the app's config file.
AppBackup == with_suffix(ConfigPath, ".bak")

\* C28: over any sequence of saves and theme previews, whenever the .bak
\* file is created or rewritten during the session, its content is the
\* content the config file had on disk before the session's first write.
C28_BackupIsPreSession ==
    [][ disk'[AppBackup] # disk[AppBackup] =>
          disk'[AppBackup] = session_file ]_vars

----------------------------------------------------------------------------
(* Unsaved edits and the disk (SpecApp)                                    *)

\* What get(k) of the config file on d must be for the pending edit of
\* row k to be on disk: the row's value, or no entry for an emptied row.
EditOnDisk(d, rs, k) ==
    get(FileEntries(d), k) =
        (IF rs[k].current_value = <<>> THEN None ELSE rs[k].current_value)

\* C30: the pending edit of a modified row gets into the config file only
\* by an action_save whose write succeeds; when the write of action_save
\* fails the file and the rows stay as they are and has_unsaved is not
\* cleared, and a later _apply_theme write does not put the unsaved edit
\* into the file.
C30_EditsOnlyBySave ==
    [][ /\ \A k \in AppRowKeys :
             (/\ pc = "running"
              /\ is_modified(rows[k])
              /\ ~EditOnDisk(disk, rows, k)
              /\ EditOnDisk(disk', rows, k))
                  => (op'.name = "action_save" /\ result' = Saved)
        /\ (op'.name = "action_save" /\ result' = OSError) =>
             /\ disk'[ConfigPath] = disk[ConfigPath]
             /\ rows' = rows
             /\ has_unsaved' = has_unsaved ]_vars

----------------------------------------------------------------------------
(* Symmetry of the diff (SpecDiff)                                         *)

\* C29: a.modified_keys(b) = b.modified_keys(a) for any two documents;
\* a.modified_keys(a) is empty; and the diff does not depend on positions,
\* comments or blanks: after replacing keys' entries by set_repeatable with
\* the same values in the same order, no key is reported.
C29_DiffSymmetric ==
    op.name = "modified_keys" =>
        /\ result = modified_keys(prev, entries)
        /\ entries = prev => result = {}
        /\ pc = "rediffed" => result = {}
        /\ NonOptions(entries) # NonOptions(prev) =>
               result = modified_keys(SelectSeq(entries, LAMBDA e :
                                          e.kind = "option"), prev)

\* A diff of a document with a copy whose entries were moved by
\* set_repeatable, and which reports nothing.
C29_Witness ==
    /\ pc = "rediffed"
    /\ op.name = "modified_keys"
    /\ entries # prev
    /\ result = {}
    /\ \E k \in Keys : OptionIdx(prev, k) # {}

====
